---- MODULE Spec2Model ----
(***************************************************************************)
(* The React context demo: ThemeContext / ThemeProvider (context/theme.js), *)
(* UserContext / UserProvider (context/user.js) and the components that     *)
(* read them (App, Header, ThemedButton, DarkModeToggle, Profile,           *)
(* Interests), mounted by ReactDOM.render (index.js).                       *)
(*                                                                          *)
(* JavaScript values are tagged records, so that `undefined`, `null`,       *)
(* strings, objects and functions stay distinct and destructuring, property *)
(* lookup, truthiness and calls behave as the language defines them.        *)
(*                                                                          *)
(* A render pass is a queue of component functions React still has to call; *)
(* one step calls one of them.  React is single-threaded: an event handler  *)
(* runs only when no render pass is in progress.                            *)
(*                                                                          *)
(* Revisions: App.js holds two revisions of App one after the other; both   *)
(* are mountable configurations here (app = 1, app = 2).  Header is the     *)
(* module App imports, components/Header.js; Profile is the function that   *)
(* unnamed/part_001 and unnamed/part_002 both define.  The stray token at   *)
(* context/user.js:16 is not modelled: the model is of the definitions the  *)
(* modules export, as if every module loads.                                *)
(***************************************************************************)
EXTENDS Integers, Sequences, FiniteSets

VARIABLES
  nest,        \* number of ThemeProviders nested around App (index.js: 1)
  app,         \* which App is mounted: 1 = App.js:8-19, 2 = App.js:26-35
  themeState,  \* themeState[k]: the useState slot of the k-th ThemeProvider
  appTheme,    \* the useState slot of App
  themeCtx,    \* themeCtx[k]: value prop of the k-th ThemeContext.Provider
  userCtx,     \* value prop of UserContext.Provider
  hooks,       \* what the last render of each consumer bound to its locals
  dom,         \* what is on the page
  queue,       \* component functions the current render pass still calls
  crashed,     \* a component function threw while rendering
  thrown,      \* the error the last event handler raised, or "none"
  clicks,      \* number of clicks on the login button so far
  nSet,        \* nSet[k]: number of change events on the toggle at level k
  lastChecked  \* lastChecked[k]: e.target.checked of the last such event

vars == <<nest, app, themeState, appTheme, themeCtx, userCtx, hooks, dom,
          queue, crashed, thrown, clicks, nSet, lastChecked>>

---------------------------------------------------------------------------
(* Bounds *)

MaxNest == 2

MaxClicks == 2

MaxSets == 2

Levels == 1..MaxNest

---------------------------------------------------------------------------
(* JavaScript values *)

Undefined == [t |-> "undefined"]

Null == [t |-> "null"]

Str(s) == [t |-> "string", v |-> s]

Obj(p) == [t |-> "object", props |-> p]

Arr(items) == [t |-> "array", items |-> items]

\* the setter useState returns for the slot of the k-th ThemeProvider
SetterOf(k) == [t |-> "function", binding |-> k]

\* a local that no render has bound yet
Unrendered == [t |-> "unrendered"]

IsNullish(v) == v.t \in {"undefined", "null"}

\* o.p : a property the object lacks reads as undefined
GetProp(o, p) ==
  IF o.t = "object" /\ p \in DOMAIN o.props THEN o.props[p] ELSE Undefined

\* JavaScript truthiness, as `if (user)`, `!user` and `user ? a : b` apply it
Truthy(v) ==
  CASE v.t \in {"undefined", "null"} -> FALSE
    [] v.t = "string" -> v.v # ""
    [] OTHER -> TRUE

---------------------------------------------------------------------------
(* context/theme.js and context/user.js *)

\* React.createContext() is given no default: an unbound read is undefined
ThemeContextDefault == Undefined

UserContextDefault == Undefined

\* the object UserProvider builds and passes as the provider's value
currentUser ==
  Obj([name |-> Str("Duane"),
       interests |-> Arr(<<"Coding", "Biking", "Words ending in 'ing'">>)])

UserProviderValue == currentUser

\* value={{ theme, setTheme }} of the k-th ThemeProvider
ThemeProviderValue(k) ==
  Obj([theme |-> Str(themeState[k]), setTheme |-> SetterOf(k)])

\* the default export of ../data that Header imports and passes to setUser
defaultUser ==
  Obj([name |-> Str("Duane"), interests |-> Arr(<<"Coding", "Biking">>)])

---------------------------------------------------------------------------
(* The element tree.  A component instance is [c |-> function, k |-> the   *)
(* number of ThemeProviders that enclose it].                               *)

Comp(c, k) == [c |-> c, k |-> k]

\* <ThemeProvider> <DarkModeToggle/> <ThemeProvider> ... <App/> ... : with
\* n = 1 this is index.js; every outer provider also holds a DarkModeToggle
\* of its own, so that each binding has a consumer and a caller of its setter
RECURSIVE Providers(_, _)
Providers(k, n) ==
  IF k > n THEN <<>>
  ELSE <<Comp("ThemeProvider", k)>>
       \o (IF k < n THEN <<Comp("DarkModeToggle", k)>> ELSE <<>>)
       \o Providers(k + 1, n)

\* what App returns, in the order React calls the component functions
AppTree(n, a) ==
  <<Comp("App", n)>>
  \o (IF a = 1 THEN <<Comp("UserProvider", n)>> ELSE <<>>)
  \o <<Comp("Header", n), Comp("ThemedButton", n), Comp("DarkModeToggle", n),
       Comp("Profile", n)>>

\* ReactDOM.render(<ThemeProvider><App /></ThemeProvider>, root)
RootTree(n, a) == Providers(1, n) \o AppTree(n, a)

\* a lookup that stops at the outermost provider instead of the nearest
OutermostProvider(k) == IF k = 0 THEN 0 ELSE 1

\* the ThemeProvider a consumer k providers deep is bound to: the nearest
\* enclosing one, which is the k-th; 0 when none encloses it
NearestProvider(k) == k

\* useContext(ThemeContext) from a position k providers deep: the value of
\* the provider the consumer is bound to, or the context's default
UseThemeContext(k) ==
  IF NearestProvider(k) = 0 THEN ThemeContextDefault
  ELSE themeCtx[NearestProvider(k)]

\* useContext(UserContext): App.js:13 wraps Header and Profile in the
\* provider, App.js:31-32 does not
UseUserContext == IF app = 1 THEN userCtx ELSE UserContextDefault

NoDom ==
  [main |-> "unmounted", button |-> "unmounted", label |-> "unmounted",
   toggle |-> [k \in Levels |-> "unmounted"], profile |-> "unmounted",
   interests |-> "unmounted"]

NoHooks ==
  [headerUser |-> Unrendered, headerSetUser |-> Unrendered,
   profileUser |-> Unrendered, buttonTheme |-> Unrendered,
   interestsTheme |-> Unrendered,
   toggleTheme |-> [k \in Levels |-> Unrendered],
   toggleSetTheme |-> [k \in Levels |-> Unrendered]]

\* className={v}: a string becomes the class, anything else no class
ClassOf(v) == IF v.t = "string" THEN v.v ELSE ""

---------------------------------------------------------------------------
(* The component functions.  Each returns what one call of it does: whether *)
(* it threw, the provider value it passes down, the locals it bound, the    *)
(* page after it, and the child components it mounts.                       *)

Returns(value, h, d, children) ==
  [err |-> FALSE, value |-> value, hooks |-> h, dom |-> d,
   children |-> children]

\* const { a, b } = undefined  throws a TypeError
Throws ==
  [err |-> TRUE, value |-> Undefined, hooks |-> hooks, dom |-> dom,
   children |-> <<>>]

ThemeProvider(k) == Returns(ThemeProviderValue(k), hooks, dom, <<>>)

UserProvider == Returns(UserProviderValue, hooks, dom, <<>>)

App == Returns(Undefined, hooks, [dom EXCEPT !.main = appTheme], <<>>)

\* a Header that takes the context value itself for the user, as
\* `const user = useContext(UserContext)` does
HeaderWholeValue ==
  LET user == UseUserContext
  IN Returns(Undefined,
             [hooks EXCEPT !.headerUser = user, !.headerSetUser = Undefined],
             [dom EXCEPT !.label = IF Truthy(user) THEN "Logout" ELSE "Login"],
             <<>>)

Header ==
  LET ctx == UseUserContext
      user == GetProp(ctx, "user")
      setUser == GetProp(ctx, "setUser")
  IN IF IsNullish(ctx) THEN Throws
     ELSE Returns(Undefined,
                  [hooks EXCEPT !.headerUser = user, !.headerSetUser = setUser],
                  [dom EXCEPT !.label = IF Truthy(user) THEN "Logout"
                                        ELSE "Login"],
                  <<>>)

\* a ThemedButton that takes the theme from a prop its parent does not pass
\* and never reads the context
ThemedButtonFromProps(k) ==
  Returns(Undefined, [hooks EXCEPT !.buttonTheme = Undefined],
          [dom EXCEPT !.button = ClassOf(Undefined)], <<>>)

ThemedButton(k) ==
  LET ctx == UseThemeContext(k)
      theme == GetProp(ctx, "theme")
  IN IF IsNullish(ctx) THEN Throws
     ELSE Returns(Undefined, [hooks EXCEPT !.buttonTheme = theme],
                  [dom EXCEPT !.button = ClassOf(theme)], <<>>)

DarkModeToggle(k) ==
  LET ctx == UseThemeContext(k)
      theme == GetProp(ctx, "theme")
      setTheme == GetProp(ctx, "setTheme")
  IN IF IsNullish(ctx) THEN Throws
     ELSE Returns(Undefined,
                  [hooks EXCEPT !.toggleTheme[k] = theme,
                                !.toggleSetTheme[k] = setTheme],
                  [dom EXCEPT !.toggle[k] = IF theme = Str("dark")
                                            THEN "checked" ELSE "unchecked"],
                  <<>>)

Profile(k) ==
  LET ctx == UseUserContext
      user == GetProp(ctx, "user")
  IN IF IsNullish(ctx) THEN Throws
     ELSE IF ~Truthy(user)
          THEN Returns(Undefined, [hooks EXCEPT !.profileUser = user],
                       [dom EXCEPT !.profile = "prompt",
                                   !.interests = "unmounted"], <<>>)
          ELSE Returns(Undefined, [hooks EXCEPT !.profileUser = user],
                       [dom EXCEPT !.profile = "profile"],
                       <<Comp("Interests", k)>>)

\* interests is user.interests of the user Profile bound; interests.map
\* throws unless it is an array
Interests(k) ==
  LET ctx == UseThemeContext(k)
      theme == GetProp(ctx, "theme")
      interests == GetProp(hooks.profileUser, "interests")
  IN IF IsNullish(ctx) \/ interests.t # "array" THEN Throws
     ELSE Returns(Undefined, [hooks EXCEPT !.interestsTheme = theme],
                  [dom EXCEPT !.interests = ClassOf(theme)], <<>>)

CallComponent(c) ==
  CASE c.c = "ThemeProvider" -> ThemeProvider(c.k)
    [] c.c = "UserProvider" -> UserProvider
    [] c.c = "App" -> App
    [] c.c = "Header" -> Header
    [] c.c = "ThemedButton" -> ThemedButton(c.k)
    [] c.c = "DarkModeToggle" -> DarkModeToggle(c.k)
    [] c.c = "Profile" -> Profile(c.k)
    [] c.c = "Interests" -> Interests(c.k)

---------------------------------------------------------------------------
(* State after ReactDOM.render has been called and before React has called *)
(* any component function: every slot holds its useState initial value.    *)

Init ==
  /\ nest \in 0..MaxNest
  /\ app \in {1, 2}
  /\ themeState = [k \in Levels |-> "dark"]
  /\ appTheme = "dark"
  /\ themeCtx = [k \in Levels |-> Undefined]
  /\ userCtx = Undefined
  /\ hooks = NoHooks
  /\ dom = NoDom
  /\ queue = RootTree(nest, app)
  /\ crashed = FALSE
  /\ thrown = "none"
  /\ clicks = 0
  /\ nSet = [k \in Levels |-> 0]
  /\ lastChecked = [k \in Levels |-> "none"]

\* no render pass is in progress
Settled == queue = <<>>

\* React calls the next component function of the render pass.  A function
\* that throws ends the pass and React unmounts the whole root.
Render ==
  /\ queue # <<>>
  /\ LET c == Head(queue)
         r == CallComponent(c)
     IN IF r.err
        THEN /\ crashed' = TRUE
             /\ queue' = <<>>
             /\ dom' = NoDom
             /\ UNCHANGED <<themeCtx, userCtx, hooks>>
        ELSE /\ themeCtx' = IF c.c = "ThemeProvider"
                            THEN [themeCtx EXCEPT ![c.k] = r.value]
                            ELSE themeCtx
             /\ userCtx' = IF c.c = "UserProvider" THEN r.value ELSE userCtx
             /\ hooks' = r.hooks
             /\ dom' = r.dom
             /\ queue' = r.children \o Tail(queue)
             /\ UNCHANGED crashed
  /\ UNCHANGED <<nest, app, themeState, appTheme, thrown, clicks, nSet,
                 lastChecked>>

\* the mounted components that call useContext(ThemeContext), in tree order
ThemeConsumers ==
  SelectSeq(RootTree(nest, app)
              \o (IF dom.interests # "unmounted"
                  THEN <<Comp("Interests", nest)>> ELSE <<>>),
            LAMBDA c : c.c \in {"ThemedButton", "DarkModeToggle", "Interests"})

\* the components React calls again after the slot of provider b changed:
\* the provider itself and the mounted consumers whose nearest provider it is
Subscribers(b) ==
  <<Comp("ThemeProvider", b)>>
  \o SelectSeq(ThemeConsumers, LAMBDA c : NearestProvider(c.k) = b)

\* a setter that writes one theme shared by every provider
CallSetterGlobal(f, arg) ==
  IF f.t # "function"
  THEN [thrown |-> "TypeError", themeState |-> themeState, queue |-> queue]
  ELSE IF themeState[f.binding] = arg
       THEN [thrown |-> "none", themeState |-> themeState, queue |-> queue]
       ELSE [thrown |-> "none",
             themeState |-> [k \in Levels |-> arg],
             queue |-> Subscribers(f.binding)]

\* f(arg) for a value f bound by a render: a useState setter replaces its
\* slot and schedules a render pass unless the value is the one it holds;
\* calling what is not a function throws a TypeError
CallSetter(f, arg) ==
  IF f.t # "function"
  THEN [thrown |-> "TypeError", themeState |-> themeState, queue |-> queue]
  ELSE IF themeState[f.binding] = arg
       THEN [thrown |-> "none", themeState |-> themeState, queue |-> queue]
       ELSE [thrown |-> "none",
             themeState |-> [themeState EXCEPT ![f.binding] = arg],
             queue |-> Subscribers(f.binding)]

\* the two branches of the conditional swapped
ToggleArgInverted(checked) == IF checked THEN "light" ELSE "dark"

\* setTheme(e.target.checked ? "dark" : "light")
ToggleArg(checked) == IF checked THEN "dark" ELSE "light"

\* a change event on the checkbox of the DarkModeToggle at level k
handleToggleTheme(k, checked) ==
  /\ Settled /\ ~crashed
  /\ dom.toggle[k] # "unmounted"
  /\ nSet[k] < MaxSets
  /\ LET r == CallSetter(hooks.toggleSetTheme[k], ToggleArg(checked))
     IN /\ themeState' = r.themeState
        /\ queue' = r.queue
        /\ thrown' = r.thrown
  /\ nSet' = [nSet EXCEPT ![k] = @ + 1]
  /\ lastChecked' = [lastChecked EXCEPT ![k] = IF checked THEN "checked"
                                               ELSE "unchecked"]
  /\ UNCHANGED <<nest, app, appTheme, themeCtx, userCtx, hooks, dom, crashed,
                 clicks>>

\* if (user) setUser(null) else setUser(defaultUser)
LoginArg(user) == IF Truthy(user) THEN Null ELSE defaultUser

\* a click on the ThemedButton that Header renders
handleLogin ==
  /\ Settled /\ ~crashed
  /\ dom.label # "unmounted"
  /\ clicks < MaxClicks
  /\ LET r == CallSetter(hooks.headerSetUser, LoginArg(hooks.headerUser))
     IN /\ themeState' = r.themeState
        /\ queue' = r.queue
        /\ thrown' = r.thrown
  /\ clicks' = clicks + 1
  /\ UNCHANGED <<nest, app, appTheme, themeCtx, userCtx, hooks, dom, crashed,
                 nSet, lastChecked>>

Next ==
  \/ Render
  \/ \E k \in Levels, checked \in BOOLEAN : handleToggleTheme(k, checked)
  \/ handleLogin

Spec == Init /\ [][Next]_vars

---------------------------------------------------------------------------
(* Properties *)

\* the page is up: the root rendered without a throw and no pass is running
Live == Settled /\ ~crashed /\ dom.main # "unmounted"

\* the theme a change event with this e.target.checked asks for
Asked(c) == IF c = "checked" THEN "dark" ELSE "light"

\* every mounted consumer whose nearest ThemeProvider is the k-th read v
ConsumersRead(k, v) ==
  /\ hooks.toggleTheme[k] = v
  /\ k = nest => /\ hooks.buttonTheme = v
                 /\ dom.interests # "unmounted" => hooks.interestsTheme = v

\* C1: a consumer that reads UserContext or ThemeContext with no enclosing
\* provider mounted gets the context's default and completes without an
\* error: the page renders, and with no user bound Profile shows the login
\* prompt.
C1_UnboundReadNeverFails ==
  (Settled /\ (nest = 0 \/ app = 2)) =>
     /\ ~crashed
     /\ app = 2 => dom.profile = "prompt"

\* C2: with the binding UserProvider establishes, a consumer reads the bound
\* record (Duane and the interests); after the login button has then called
\* the setter with null, the consumers read null and Profile shows the login
\* prompt.
C2_UserScopeEndToEnd ==
  (Live /\ app = 1) =>
     /\ clicks = 0 => /\ hooks.profileUser = UserProviderValue
                      /\ hooks.headerUser = UserProviderValue
     /\ clicks = 1 => /\ hooks.profileUser = Null
                      /\ hooks.headerUser = Null
                      /\ dom.profile = "prompt"

\* C3: starting from no user, after n clicks on the login button a user is
\* present exactly when n is odd, and no click raises an error.
C3_LoginToggle ==
  (Live /\ app = 1) =>
     /\ Truthy(hooks.headerUser) <=> clicks % 2 = 1
     /\ thrown = "none"

\* C4: once a pass has settled after the setter of a binding was called with
\* X, every consumer of that binding reads X, and all consumers of one
\* binding read the same value.
C4_UpdatePropagation ==
  Live =>
    \A k \in 1..nest :
       /\ \E v \in {Str("dark"), Str("light")} : ConsumersRead(k, v)
       /\ lastChecked[k] # "none" =>
             ConsumersRead(k, Str(Asked(lastChecked[k])))

C4_Witness ==
  /\ Live /\ nest >= 1
  /\ lastChecked[nest] = "unchecked"
  /\ hooks.buttonTheme = Str("light")
  /\ hooks.toggleTheme[nest] = Str("light")

\* C5: a theme binding starts at "dark", is always "dark" or "light", holds
\* "dark" after a change event with checked = true and "light" after one with
\* checked = false, and on the settled page the checkbox is checked exactly
\* when the theme its DarkModeToggle reads is "dark".
C5_ThemeScope ==
  \A k \in 1..nest :
     /\ themeState[k] \in {"dark", "light"}
     /\ nSet[k] = 0 => themeState[k] = "dark"
     /\ lastChecked[k] = "checked" => themeState[k] = "dark"
     /\ lastChecked[k] = "unchecked" => themeState[k] = "light"
     /\ Live => /\ hooks.toggleTheme[k] = Str(themeState[k])
                /\ dom.toggle[k] = "checked" <=> themeState[k] = "dark"

C5_Witness ==
  /\ Live /\ nest >= 1
  /\ nSet[nest] = 1 /\ lastChecked[nest] = "unchecked"
  /\ themeState[nest] = "light"
  /\ dom.toggle[nest] = "unchecked"

\* C6: a slot changes only in a call of its own setter: the slot of the k-th
\* ThemeProvider changes only in a change event of the toggle bound to it,
\* the slot of App never, a login click leaves every theme slot and the user
\* value alone, a theme toggle leaves the user value alone, and a component
\* function changes no slot.
C6_OnlyOwnSetterChanges ==
  [][ /\ \A k \in Levels :
            themeState'[k] # themeState[k] =>
               /\ nSet'[k] = nSet[k] + 1
               /\ \A j \in Levels \ {k} : nSet'[j] = nSet[j]
      /\ appTheme' = appTheme
      /\ clicks' # clicks => themeState' = themeState /\ userCtx' = userCtx
      /\ nSet' # nSet => userCtx' = userCtx /\ clicks' = clicks
      /\ queue # <<>> => themeState' = themeState
    ]_vars

C6_Witness ==
  /\ Live /\ nest = 2 /\ clicks >= 1
  /\ nSet[1] = 0 /\ nSet[2] >= 1
  /\ themeState[1] = "dark" /\ themeState[2] = "light"
  /\ userCtx = UserProviderValue

\* C7: with two ThemeProviders nested, the consumers inside the inner one
\* read the inner slot and the consumer inside only the outer one reads the
\* outer slot, also when the two slots differ.
C7_Shadowing ==
  (Live /\ nest >= 2) =>
     /\ hooks.buttonTheme = Str(themeState[nest])
     /\ dom.button = themeState[nest]
     /\ hooks.toggleTheme[nest] = Str(themeState[nest])
     /\ \A k \in 1..(nest - 1) :
           /\ hooks.toggleTheme[k] = Str(themeState[k])
           /\ themeState[k] # themeState[nest] =>
                 hooks.buttonTheme # Str(themeState[k])

C7_Witness ==
  /\ Live /\ nest = 2
  /\ themeState[1] = "light" /\ themeState[2] = "dark"
  /\ nSet[2] >= 1
  /\ dom.button = "dark" /\ dom.toggle[1] = "unchecked"

\* C8: a setter called a second time in a row with the value of the call
\* before changes nothing that a consumer resolves, and raises no error;
\* this for setTheme (two change events with the same checked) and for
\* setUser (two login clicks with the same user bound in Header).
C8_SetterIdempotent ==
  [][ /\ \A k \in Levels :
            (nSet'[k] = nSet[k] + 1 /\ lastChecked'[k] = lastChecked[k]) =>
               /\ themeState' = themeState /\ themeCtx' = themeCtx
               /\ hooks' = hooks /\ dom' = dom /\ queue' = queue
               /\ thrown' = "none"
      /\ (clicks >= 1 /\ clicks' = clicks + 1) =>
               /\ hooks' = hooks /\ dom' = dom
               /\ thrown' = "none"
    ]_vars

\* the setTheme half of C8 alone
ThemeSetterIdempotent ==
  [][ \A k \in Levels :
         (nSet'[k] = nSet[k] + 1 /\ lastChecked'[k] = lastChecked[k]) =>
            /\ themeState' = themeState /\ themeCtx' = themeCtx
            /\ hooks' = hooks /\ dom' = dom /\ queue' = queue
            /\ thrown' = "none"
    ]_vars

C10_ThemeConsistency ==
  Live =>
     /\ Str(dom.main) = hooks.buttonTheme
     /\ Str(dom.main) = hooks.toggleTheme[nest]

====
